---- MODULE Spec2Model ----
(***************************************************************************)
(* Model of the Flink reconciliation engine (FlinkController) of           *)
(* pkg/controller/flink and of the job-manager wire model of               *)
(* pkg/controller/flink/client.                                            *)
(*                                                                         *)
(* The engine keeps no state: the mutable state is the cluster object      *)
(* store (deployments).  Every engine operation is one action.  It takes   *)
(* the desired application as input, makes its external calls in the order *)
(* of the code and records in `last` what it returned and the external     *)
(* calls it made, each with its response.  ctx stands for what the         *)
(* environment decides during one invocation: failAt, the position of the  *)
(* external call that fails (0: none), remote, what the job manager        *)
(* answers, and done, the objects a failing delete had already removed.    *)
(***************************************************************************)
EXTENDS Integers, Sequences, FiniteSets, TLC

VARIABLES deployments, last

vars == <<deployments, last>>

----------------------------------------------------------------------------
(* Bounds of the model *)

MaxDeployments == 3
MaxReplicas == 2
MaxParallelism == 2
MaxJobs == 1
MaxListing == 2

JobIdSeq == <<"J1", "J2", "J3", "J4">>

----------------------------------------------------------------------------
(* Wire model: pkg/controller/flink/client *)

FlinkJobCreated == "CREATED"
FlinkJobRunning == "RUNNING"
FlinkJobFailing == "FAILING"
FlinkJobFailed == "FAILED"
FlinkJobCancelling == "CANCELLING"
FlinkJobCanceled == "CANCELED"
FlinkJobFinished == "FINISHED"

FlinkJobStatus ==
    {FlinkJobCreated, FlinkJobRunning, FlinkJobFailing, FlinkJobFailed,
     FlinkJobCancelling, FlinkJobCanceled, FlinkJobFinished}

\* FlinkJobStatus is a string type: the wire may carry any string.
WireJobStatus == FlinkJobStatus \cup {"RESTARTING"}

RECURSIVE Listings(_)
\* Job listings of at most n jobs; the i-th job listed has the i-th job id.
Listings(n) ==
    IF n = 0 THEN {<<>>}
    ELSE Listings(n - 1) \cup
            { Append(l, [JobId |-> JobIdSeq[n], Status |-> s]) :
                l \in {x \in Listings(n - 1) : Len(x) = n - 1}, s \in WireJobStatus }

SavePointInvalid == ""
SavePointInProgress == "IN_PROGRESS"
SavePointCompleted == "COMPLETED"

SavepointStatus == {SavePointInvalid, SavePointInProgress, SavePointCompleted}

CheckpointInProgress == "IN_PROGRESS"
CheckpointFailed == "FAILED"
CheckpointCompleted == "COMPLETED"

CheckpointStatus == {CheckpointInProgress, CheckpointFailed, CheckpointCompleted}

\* A member of a JSON object that may be absent.
Absent == [present |-> FALSE, text |-> ""]

Present(text) == [present |-> TRUE, text |-> text]

\* Status strings the job manager may send: the recognised ones, the other
\* job states of the remote API, the empty string and strings in another
\* case.
WireStatusTexts ==
    FlinkJobStatus \cup SavepointStatus \cup CheckpointStatus
        \cup {"INITIALIZING", "RESTARTING", "SUSPENDED", "RECONCILING", "running", "Completed"}

WireStatuses == {Absent} \cup { Present(t) : t \in WireStatusTexts }

\* Decoding into one of the string types FlinkJobStatus, SavepointStatus,
\* CheckpointStatus: an absent member leaves the zero value, a string is
\* converted to the type as it is.
DecodeStatus(wire) == IF wire.present THEN wire.text ELSE ""

\* A struct field as the JSON package sees it: its name and its tag.  The
\* tag is looked up in the conventional form key:"value" only.
Field(goName, key, colon, value) ==
    [goName |-> goName, key |-> key, colon |-> colon, value |-> value]

TagLookup(field, key) == IF field.key = key /\ field.colon THEN field.value ELSE ""

\* The member name a field is written under, and read from.
WireName(field) ==
    IF TagLookup(field, "json") # "" THEN TagLookup(field, "json") ELSE field.goName

LocationField == Field("Location", "json", TRUE, "location")

FailureCauseField == Field("FailureCause", "json", FALSE, "failure-cause")

\* Member names are matched exactly or, failing that, without regard to case.
FoldCase(name) ==
    CASE name = "FailureCause" -> "failurecause"
      [] name = "Location" -> "location"
      [] name = "Failure-Cause" -> "failure-cause"
      [] OTHER -> name

MatchesField(name, field) ==
    name = WireName(field) \/ FoldCase(name) = FoldCase(WireName(field))

NoFailureCause == [Class |-> "", StackTrace |-> ""]

\* The savepoint responses on the wire: status.id, operation.location and
\* the failure cause with the member name it is sent under ("" when the
\* operation object has no such member).
SavepointDocs ==
    [ status : {Absent} \cup { Present(t) : t \in SavepointStatus \cup {"FAILED"} },
      location : {"", "sp1"},
      causeName : {"failure-cause", "FailureCause", "failurecause"},
      cause : { [Class |-> "E", StackTrace |-> "at f"], [Class |-> "E", StackTrace |-> ""] } ]
        \cup [ status : {Absent} \cup { Present(t) : t \in SavepointStatus \cup {"FAILED"} },
               location : {"", "sp1"}, causeName : {""}, cause : {NoFailureCause} ]

DecodeSavepointResponse(doc) ==
    [ SavepointStatus |-> [Status |-> DecodeStatus(doc.status)],
      Operation |->
        [ Location |-> doc.location,
          FailureCause |-> IF doc.causeName # "" /\ MatchesField(doc.causeName, FailureCauseField)
                           THEN doc.cause ELSE NoFailureCause ] ]

EncodeSavepointResponse(response) ==
    [ status |-> Present(response.SavepointStatus.Status),
      location |-> response.Operation.Location,
      causeName |-> WireName(FailureCauseField),
      cause |-> response.Operation.FailureCause ]

----------------------------------------------------------------------------
(* Values shared by the operations *)

NoErr == "nil"
NilPtr == [nil |-> TRUE]

\* The desired applications the caller may pass.  Application "b" is the
\* other application of the namespace.
Identities ==
    { [Name |-> "a", Image |-> "img1"], [Name |-> "a", Image |-> "img2"],
      [Name |-> "b", Image |-> "img1"] }

\* The job artifact and the persisted savepoint information are read by the
\* operations that start, cancel and poll; elsewhere they keep these values.
Application(id, ntm, par, job) ==
    [Name |-> id.Name, Namespace |-> "ns", Image |-> id.Image,
     NumberTaskManagers |-> ntm, Parallelism |-> par, ActiveJobId |-> job,
     JobJarName |-> "a.jar", SavepointLocation |-> "", TriggerId |-> ""]

\* Operations on the object store read neither Parallelism nor ActiveJobId.
StoreApplications ==
    { Application(id, ntm, 1, "") : id \in Identities, ntm \in 1..MaxReplicas }

Applications ==
    { Application(id, ntm, par, job) :
        id \in Identities, ntm \in 1..MaxReplicas, par \in 1..MaxParallelism,
        job \in {"", "J1", "J2"} }

\* Operations on the job manager read neither the image nor the replica count.
JobApplications ==
    { Application([Name |-> "a", Image |-> "img1"], 1, par, job) :
        par \in 1..MaxParallelism, job \in {"", "J1", "J2"} }

\* What the job manager answers during one invocation: the job listing, the
\* parallelism of the job, and whether a failing GetJobConfig hands back nil
\* or a zero value.  NoRemote is a job manager that is asked nothing.
\* JobId is the job id a submit answers, RequestId the trigger id a cancel
\* answers, Body the savepoint response a poll answers.
NoRemote ==
    [Jobs |-> <<>>, Parallelism |-> 1, nilOnErr |-> TRUE, JobId |-> "", RequestId |-> "",
     Body |-> [status |-> Absent, location |-> "", causeName |-> "",
               cause |-> NoFailureCause]]

Ctx(failAt, remote, done) == [failAt |-> failAt, remote |-> remote, done |-> done]

\* What an operation hands back: value, error, whether it faulted (a run-time
\* panic instead of a return), the external calls made so far, the store.
Ret(val, err, calls, store) ==
    [val |-> val, err |-> err, fault |-> FALSE, calls |-> calls, store |-> store]

\* A fault hands nothing back: val is the zero value and is not to be read.
Fault(calls, store) ==
    [val |-> FALSE, err |-> NoErr, fault |-> TRUE, calls |-> calls, store |-> store]

\* The external call about to be made is the one that fails.
Fails(calls, ctx) == Len(calls) + 1 = ctx.failAt

\* The record of one external call.  arg and resp are records of one field,
\* named after what the call takes and answers; NilPtr stands for no answer.

Call(name, arg, calls, err, resp) ==
    Append(calls, [call |-> name, arg |-> arg, err |-> err, resp |-> resp])

----------------------------------------------------------------------------
(* Cluster object store and its helpers (package k8) *)

GetImageKey(image) ==
    CASE image = "img1" -> "key1"
      [] image = "img2" -> "key2"

GetAppLabel(name) == [app |-> name]

GetImageLabel(key) == [imageKey |-> key]

MatchesLabel(d, labels) ==
    \A k \in DOMAIN labels : k \in DOMAIN d.Labels /\ d.Labels[k] = labels[k]

\* One external call: list the deployments of a namespace carrying the labels.
GetDeploymentsWithLabel(store, ctx, namespace, labels, calls) ==
    LET items == {d \in store : d.Namespace = namespace /\ MatchesLabel(d, labels)}
    IN  IF Fails(calls, ctx)
        THEN [Items |-> {}, err |-> "ErrGetDeploymentsWithLabel",
              calls |-> Call("GetDeploymentsWithLabel", [labels |-> labels], calls,
                             "ErrGetDeploymentsWithLabel", [items |-> {}])]
        ELSE [Items |-> items, err |-> NoErr,
              calls |-> Call("GetDeploymentsWithLabel", [labels |-> labels], calls,
                             NoErr, [items |-> items])]

\* Partition of a listing by a label: <<matching, not matching>>.
MatchDeploymentsByLabel(items, labels) ==
    << {d \in items : MatchesLabel(d, labels)},
       {d \in items : ~MatchesLabel(d, labels)} >>

\* One external call: replace the stored object of the same name.
UpdateK8Object(store, ctx, obj, calls) ==
    IF Fails(calls, ctx)
        THEN [err |-> "ErrUpdateK8Object", store |-> store,
              calls |-> Call("UpdateK8Object", [object |-> obj], calls, "ErrUpdateK8Object", NilPtr)]
        ELSE [err |-> NoErr, calls |-> Call("UpdateK8Object", [object |-> obj], calls, NoErr, NilPtr),
              store |-> {d \in store : ~(d.Name = obj.Name /\ d.Namespace = obj.Namespace)}
                            \cup {obj}]

\* One external call: delete the listed objects one by one; a failure leaves
\* ctx.done, when a proper part of the list, deleted.
DeleteDeployments(store, ctx, items, calls) ==
    IF Fails(calls, ctx)
        THEN [err |-> "ErrDeleteDeployments",
              calls |-> Call("DeleteDeployments", [targets |-> items], calls, "ErrDeleteDeployments", NilPtr),
              store |-> IF ctx.done \subseteq items /\ ctx.done # items
                        THEN store \ ctx.done ELSE store]
        ELSE [err |-> NoErr, store |-> store \ items,
              calls |-> Call("DeleteDeployments", [targets |-> items], calls, NoErr, NilPtr)]

----------------------------------------------------------------------------
(* Names and provisioners of the job-manager and task-manager units *)

getJobManagerName(application) ==
    <<application.Name, GetImageKey(application.Image), "jm">>

getTaskManagerName(application) ==
    <<application.Name, GetImageKey(application.Image), "tm">>

getJobManagerServiceName(application) == <<application.Name, "jm">>

UnitLabels(application) ==
    [app |-> application.Name, imageKey |-> GetImageKey(application.Image)]

HasDeployment(store, namespace, name) ==
    \E d \in store : d.Namespace = namespace /\ d.Name = name

\* flinkJobManager.CreateIfNotExist: one external call.
JobManagerCreateIfNotExist(store, ctx, application, calls) ==
    LET unit == [Name |-> getJobManagerName(application), Namespace |-> application.Namespace,
                 Labels |-> UnitLabels(application), Replicas |-> 1]
    IN  IF Fails(calls, ctx)
        THEN [err |-> "ErrJobManagerCreate", store |-> store,
              calls |-> Call("JobManager.CreateIfNotExist", [application |-> application], calls,
                             "ErrJobManagerCreate", NilPtr)]
        ELSE [err |-> NoErr,
              calls |-> Call("JobManager.CreateIfNotExist", [application |-> application], calls, NoErr, NilPtr),
              store |-> IF HasDeployment(store, unit.Namespace, unit.Name)
                        THEN store ELSE store \cup {unit}]

\* FlinkTaskManager.CreateIfNotExist: one external call.
TaskManagerCreateIfNotExist(store, ctx, application, calls) ==
    LET unit == [Name |-> getTaskManagerName(application), Namespace |-> application.Namespace,
                 Labels |-> UnitLabels(application),
                 Replicas |-> application.NumberTaskManagers]
    IN  IF Fails(calls, ctx)
        THEN [err |-> "ErrTaskManagerCreate", store |-> store,
              calls |-> Call("TaskManager.CreateIfNotExist", [application |-> application], calls,
                             "ErrTaskManagerCreate", NilPtr)]
        ELSE [err |-> NoErr,
              calls |-> Call("TaskManager.CreateIfNotExist", [application |-> application], calls, NoErr, NilPtr),
              store |-> IF HasDeployment(store, unit.Namespace, unit.Name)
                        THEN store ELSE store \cup {unit}]

\* The task-manager deployment of the application among the items, or nil.
getTaskManagerDeployment(items, application) ==
    LET found == {d \in items : d.Name = getTaskManagerName(application)}
    IN  IF found = {} THEN NilPtr ELSE CHOOSE d \in found : TRUE

getTaskManagerReplicaCount(items, application) ==
    LET tm == getTaskManagerDeployment(items, application)
    IN  IF tm = NilPtr THEN 0 ELSE tm.Replicas

----------------------------------------------------------------------------
(* Reconciliation engine: the listings *)

getDeploymentsForApp(store, ctx, application, calls) ==
    GetDeploymentsWithLabel(store, ctx, application.Namespace,
                            GetAppLabel(application.Name), calls)

getDeploymentsForImage(store, ctx, application, calls) ==
    GetDeploymentsWithLabel(store, ctx, application.Namespace,
                            GetImageLabel(GetImageKey(application.Image)), calls)

getCurrentAndOldDeploymentsForApp(store, ctx, application, calls) ==
    LET l == getDeploymentsForApp(store, ctx, application, calls)
        appImageLabel == GetImageLabel(GetImageKey(application.Image))
        parts == MatchDeploymentsByLabel(l.Items, appImageLabel)
    IN  IF l.err # NoErr
        THEN [current |-> {}, old |-> {}, err |-> l.err, calls |-> l.calls]
        ELSE [current |-> parts[1], old |-> parts[2], err |-> NoErr, calls |-> l.calls]

----------------------------------------------------------------------------
(* Reconciliation engine: operations on the object store *)

\* Variant: scales up only.
CheckAndUpdateTaskManager_ScaleUpOnly(store, ctx, application) ==
    LET l == getDeploymentsForApp(store, ctx, application, <<>>)
        taskManagerDeployment == getTaskManagerDeployment(l.Items, application)
    IN  IF l.err # NoErr THEN Ret(FALSE, l.err, l.calls, store)
        ELSE IF taskManagerDeployment = NilPtr THEN Fault(l.calls, store)
        ELSE IF taskManagerDeployment.Replicas < application.NumberTaskManagers
        THEN LET u == UpdateK8Object(store, ctx,
                        [taskManagerDeployment EXCEPT !.Replicas = application.NumberTaskManagers],
                        l.calls)
             IN  IF u.err # NoErr THEN Ret(FALSE, u.err, u.calls, u.store)
                 ELSE Ret(TRUE, NoErr, u.calls, u.store)
        ELSE Ret(FALSE, NoErr, l.calls, store)

\* Variant: the update is issued with the deployment as it was listed.
CheckAndUpdateTaskManager_StaleWrite(store, ctx, application) ==
    LET l == getDeploymentsForApp(store, ctx, application, <<>>)
        taskManagerDeployment == getTaskManagerDeployment(l.Items, application)
    IN  IF l.err # NoErr THEN Ret(FALSE, l.err, l.calls, store)
        ELSE IF taskManagerDeployment = NilPtr THEN Fault(l.calls, store)
        ELSE IF taskManagerDeployment.Replicas # application.NumberTaskManagers
        THEN LET u == UpdateK8Object(store, ctx, taskManagerDeployment, l.calls)
             IN  IF u.err # NoErr THEN Ret(FALSE, u.err, u.calls, u.store)
                 ELSE Ret(TRUE, NoErr, u.calls, u.store)
        ELSE Ret(FALSE, NoErr, l.calls, store)

CheckAndUpdateTaskManager(store, ctx, application) ==
    LET l == getDeploymentsForApp(store, ctx, application, <<>>)
        taskManagerDeployment == getTaskManagerDeployment(l.Items, application)
    IN  IF l.err # NoErr THEN Ret(FALSE, l.err, l.calls, store)
        ELSE IF taskManagerDeployment = NilPtr THEN Fault(l.calls, store)
        ELSE IF taskManagerDeployment.Replicas # application.NumberTaskManagers
        THEN LET u == UpdateK8Object(store, ctx,
                        [taskManagerDeployment EXCEPT !.Replicas = application.NumberTaskManagers],
                        l.calls)
             IN  IF u.err # NoErr THEN Ret(FALSE, u.err, u.calls, u.store)
                 ELSE Ret(TRUE, NoErr, u.calls, u.store)
        ELSE Ret(FALSE, NoErr, l.calls, store)

\* Variant: the deployment is read again from the store before the comparison.
updateTaskManager_ReadsAgain(store, ctx, application, taskManagerDeployment, calls) ==
    LET fresh == getTaskManagerDeployment(store, application)
    IN  IF fresh = NilPtr THEN Fault(calls, store)
        ELSE IF fresh.Replicas # application.NumberTaskManagers
        THEN LET u == UpdateK8Object(store, ctx,
                        [fresh EXCEPT !.Replicas = application.NumberTaskManagers], calls)
             IN  IF u.err # NoErr THEN Ret(FALSE, u.err, u.calls, u.store)
                 ELSE Ret(TRUE, NoErr, u.calls, u.store)
        ELSE Ret(FALSE, NoErr, calls, store)

\* CheckAndUpdateTaskManager from the comparison on: taskManagerDeployment is
\* the deployment located in the listing made before, store is the object
\* store as it is when the update is issued.
updateTaskManager(store, ctx, application, taskManagerDeployment, calls) ==
    IF taskManagerDeployment = NilPtr THEN Fault(calls, store)
    ELSE IF taskManagerDeployment.Replicas # application.NumberTaskManagers
    THEN LET u == UpdateK8Object(store, ctx,
                    [taskManagerDeployment EXCEPT !.Replicas = application.NumberTaskManagers],
                    calls)
         IN  IF u.err # NoErr THEN Ret(FALSE, u.err, u.calls, u.store)
             ELSE Ret(TRUE, NoErr, u.calls, u.store)
    ELSE Ret(FALSE, NoErr, calls, store)

\* Variant: one non-empty set is enough.
IsMultipleClusterPresent_Either(store, ctx, application) ==
    LET p == getCurrentAndOldDeploymentsForApp(store, ctx, application, <<>>)
    IN  IF p.err # NoErr THEN Ret(FALSE, p.err, p.calls, store)
        ELSE IF Cardinality(p.current) > 0 \/ Cardinality(p.old) > 0
        THEN Ret(TRUE, NoErr, p.calls, store)
        ELSE Ret(FALSE, NoErr, p.calls, store)

IsMultipleClusterPresent(store, ctx, application) ==
    LET p == getCurrentAndOldDeploymentsForApp(store, ctx, application, <<>>)
    IN  IF p.err # NoErr THEN Ret(FALSE, p.err, p.calls, store)
        ELSE IF Cardinality(p.current) > 0 /\ Cardinality(p.old) > 0
        THEN Ret(TRUE, NoErr, p.calls, store)
        ELSE Ret(FALSE, NoErr, p.calls, store)

\* Variant: the task-manager step runs whatever the job-manager step returned.
CreateCluster_IgnoresJobManagerError(store, ctx, application) ==
    LET jm == JobManagerCreateIfNotExist(store, ctx, application, <<>>)
        tm == TaskManagerCreateIfNotExist(jm.store, ctx, application, jm.calls)
    IN  IF tm.err # NoErr THEN Ret(NilPtr, tm.err, tm.calls, tm.store)
        ELSE Ret(NilPtr, NoErr, tm.calls, tm.store)

CreateCluster(store, ctx, application) ==
    LET jm == JobManagerCreateIfNotExist(store, ctx, application, <<>>)
        tm == TaskManagerCreateIfNotExist(jm.store, ctx, application, jm.calls)
    IN  IF jm.err # NoErr THEN Ret(NilPtr, jm.err, jm.calls, jm.store)
        ELSE IF tm.err # NoErr THEN Ret(NilPtr, tm.err, tm.calls, tm.store)
        ELSE Ret(NilPtr, NoErr, tm.calls, tm.store)

\* Variant: the two results of the partition are taken in the wrong order.
DeleteOldCluster_Swapped(store, ctx, application) ==
    LET p == getCurrentAndOldDeploymentsForApp(store, ctx, application, <<>>)
    IN  IF p.err # NoErr THEN Ret(NilPtr, p.err, p.calls, store)
        ELSE IF Cardinality(p.current) = 0 THEN Ret(NilPtr, NoErr, p.calls, store)
        ELSE LET x == DeleteDeployments(store, ctx, p.current, p.calls)
             IN  IF x.err # NoErr THEN Ret(NilPtr, x.err, x.calls, x.store)
                 ELSE Ret(NilPtr, NoErr, x.calls, x.store)

\* Variant: one of the old deployments is deleted, the others are left.
DeleteOldCluster_OneOnly(store, ctx, application) ==
    LET p == getCurrentAndOldDeploymentsForApp(store, ctx, application, <<>>)
    IN  IF p.err # NoErr THEN Ret(NilPtr, p.err, p.calls, store)
        ELSE IF Cardinality(p.old) = 0 THEN Ret(NilPtr, NoErr, p.calls, store)
        ELSE LET x == DeleteDeployments(store, ctx, {CHOOSE d \in p.old : TRUE}, p.calls)
             IN  IF x.err # NoErr THEN Ret(NilPtr, x.err, x.calls, x.store)
                 ELSE Ret(NilPtr, NoErr, x.calls, x.store)

DeleteOldCluster(store, ctx, application) ==
    LET p == getCurrentAndOldDeploymentsForApp(store, ctx, application, <<>>)
    IN  IF p.err # NoErr THEN Ret(NilPtr, p.err, p.calls, store)
        ELSE IF Cardinality(p.old) = 0 THEN Ret(NilPtr, NoErr, p.calls, store)
        ELSE LET x == DeleteDeployments(store, ctx, p.old, p.calls)
             IN  IF x.err # NoErr THEN Ret(NilPtr, x.err, x.calls, x.store)
                 ELSE Ret(NilPtr, NoErr, x.calls, x.store)

IsClusterChangeNeeded(store, ctx, application, calls) ==
    LET currentDeployments == getDeploymentsForImage(store, ctx, application, calls)
    IN  IF currentDeployments.err # NoErr
        THEN Ret(FALSE, currentDeployments.err, currentDeployments.calls, store)
        ELSE IF Cardinality(currentDeployments.Items) = 0
        THEN Ret(TRUE, NoErr, currentDeployments.calls, store)
        ELSE Ret(FALSE, NoErr, currentDeployments.calls, store)

----------------------------------------------------------------------------
(* Job-manager API client (client.FlinkAPIInterface) *)

\* One external call: the job listing of the cluster behind serviceName.
GetJobs(ctx, serviceName, calls) ==
    IF Fails(calls, ctx)
    THEN [Jobs |-> <<>>, err |-> "ErrGetJobs",
          calls |-> Call("GetJobs", [service |-> serviceName], calls, "ErrGetJobs", NilPtr)]
    ELSE [Jobs |-> ctx.remote.Jobs, err |-> NoErr,
          calls |-> Call("GetJobs", [service |-> serviceName], calls, NoErr,
                          [jobs |-> ctx.remote.Jobs])]

\* One external call: the configuration of a job.  With an error the client
\* hands back either no response (nil) or a zero-valued one.
GetJobConfig(ctx, serviceName, jobId, calls) ==
    LET zero == [JobId |-> "", Parallelism |-> 0]
        bad == IF ctx.remote.nilOnErr THEN NilPtr ELSE zero
        good == [JobId |-> jobId, Parallelism |-> ctx.remote.Parallelism]
    IN  IF Fails(calls, ctx)
        THEN [resp |-> bad, err |-> "ErrGetJobConfig",
              calls |-> Call("GetJobConfig", [job |-> <<serviceName, jobId>>], calls,
                             "ErrGetJobConfig", [config |-> bad])]
        ELSE [resp |-> good, err |-> NoErr,
              calls |-> Call("GetJobConfig", [job |-> <<serviceName, jobId>>], calls,
                             NoErr, [config |-> good])]

\* One external call: submit the job artifact; the answer carries a job id.
SubmitJob(ctx, serviceName, jarName, savepointPath, parallelism, calls) ==
    LET request == [service |-> serviceName, jar |-> jarName,
                    savepointPath |-> savepointPath, parallelism |-> parallelism]
    IN  IF Fails(calls, ctx)
        THEN [resp |-> NilPtr, err |-> "ErrSubmitJob",
              calls |-> Call("SubmitJob", [submit |-> request], calls, "ErrSubmitJob", NilPtr)]
        ELSE [resp |-> [JobId |-> ctx.remote.JobId], err |-> NoErr,
              calls |-> Call("SubmitJob", [submit |-> request], calls, NoErr,
                             [jobid |-> ctx.remote.JobId])]

\* One external call: cancel the job with a savepoint; the answer carries the
\* trigger id of the savepoint.
CancelJobWithSavepoint(ctx, serviceName, jobId, calls) ==
    IF Fails(calls, ctx)
    THEN [val |-> "", err |-> "ErrCancelJobWithSavepoint",
          calls |-> Call("CancelJobWithSavepoint", [job |-> <<serviceName, jobId>>], calls,
                         "ErrCancelJobWithSavepoint", NilPtr)]
    ELSE [val |-> ctx.remote.RequestId, err |-> NoErr,
          calls |-> Call("CancelJobWithSavepoint", [job |-> <<serviceName, jobId>>], calls,
                         NoErr, [requestId |-> ctx.remote.RequestId])]

\* One external call: poll the savepoint of the job under the trigger id; the
\* body answered is decoded into a savepoint response.
CheckSavepointStatus(ctx, serviceName, jobId, triggerId, calls) ==
    LET poll == [service |-> serviceName, jobId |-> jobId, triggerId |-> triggerId]
    IN  IF Fails(calls, ctx)
        THEN [val |-> NilPtr, err |-> "ErrCheckSavepointStatus",
              calls |-> Call("CheckSavepointStatus", [poll |-> poll], calls,
                             "ErrCheckSavepointStatus", NilPtr)]
        ELSE [val |-> DecodeSavepointResponse(ctx.remote.Body), err |-> NoErr,
              calls |-> Call("CheckSavepointStatus", [poll |-> poll], calls, NoErr,
                             [body |-> ctx.remote.Body])]

----------------------------------------------------------------------------
(* Reconciliation engine: operations on the job manager *)

ActivePositionsOf(jobs) ==
    {i \in DOMAIN jobs : jobs[i].Status = FlinkJobRunning \/ jobs[i].Status = FlinkJobCreated}

RECURSIVE ActiveFrom(_, _)
\* The loop of GetActiveFlinkJob from position i on.
ActiveFrom(jobs, i) ==
    IF i > Len(jobs) THEN NilPtr
    ELSE IF jobs[i].Status = FlinkJobRunning \/ jobs[i].Status = FlinkJobCreated
    THEN jobs[i]
    ELSE ActiveFrom(jobs, i + 1)

\* Variant: the last active job instead of the first.
GetActiveFlinkJob_Last(jobs) ==
    IF ActivePositionsOf(jobs) = {} THEN NilPtr
    ELSE jobs[CHOOSE i \in ActivePositionsOf(jobs) : \A j \in ActivePositionsOf(jobs) : j <= i]

GetActiveFlinkJob(jobs) ==
    IF Len(jobs) = 0 THEN NilPtr ELSE ActiveFrom(jobs, 1)

GetJobsForApplication(store, ctx, application, calls) ==
    LET serviceName == getJobManagerServiceName(application)
        jobResponse == GetJobs(ctx, serviceName, calls)
    IN  IF jobResponse.err # NoErr
        THEN Ret(<<>>, jobResponse.err, jobResponse.calls, store)
        ELSE Ret(jobResponse.Jobs, NoErr, jobResponse.calls, store)

ErrInvalidJobs == "invalid jobs"

\* Variant: the live listing is preferred to the persisted job id.
getJobIdForApplication_ListingFirst(store, ctx, application, calls) ==
    LET jobs == GetJobsForApplication(store, ctx, application, calls)
        activeJob == GetActiveFlinkJob(jobs.val)
    IN  IF jobs.err # NoErr THEN Ret("", jobs.err, jobs.calls, store)
        ELSE IF activeJob # NilPtr THEN Ret(activeJob.JobId, NoErr, jobs.calls, store)
        ELSE IF application.ActiveJobId # ""
        THEN Ret(application.ActiveJobId, NoErr, jobs.calls, store)
        ELSE Ret("", ErrInvalidJobs, jobs.calls, store)

getJobIdForApplication(store, ctx, application, calls) ==
    IF application.ActiveJobId # ""
    THEN Ret(application.ActiveJobId, NoErr, calls, store)
    ELSE LET jobs == GetJobsForApplication(store, ctx, application, calls)
             activeJob == GetActiveFlinkJob(jobs.val)
         IN  IF jobs.err # NoErr THEN Ret("", jobs.err, jobs.calls, store)
             ELSE IF activeJob = NilPtr THEN Ret("", ErrInvalidJobs, jobs.calls, store)
             ELSE Ret(activeJob.JobId, NoErr, jobs.calls, store)

\* Variant: the cancel is issued whatever the resolution of the job id returned.
CancelWithSavepoint_IgnoresResolutionError(store, ctx, application, calls) ==
    LET serviceName == getJobManagerServiceName(application)
        jobId == getJobIdForApplication(store, ctx, application, calls)
        cancel == CancelJobWithSavepoint(ctx, serviceName, jobId.val, jobId.calls)
    IN  Ret(cancel.val, cancel.err, cancel.calls, store)

CancelWithSavepoint(store, ctx, application, calls) ==
    LET serviceName == getJobManagerServiceName(application)
        jobId == getJobIdForApplication(store, ctx, application, calls)
        cancel == CancelJobWithSavepoint(ctx, serviceName, jobId.val, jobId.calls)
    IN  IF jobId.err # NoErr THEN Ret("", jobId.err, jobId.calls, store)
        ELSE Ret(cancel.val, cancel.err, cancel.calls, store)

GetSavepointStatus(store, ctx, application, calls) ==
    LET serviceName == getJobManagerServiceName(application)
        jobId == getJobIdForApplication(store, ctx, application, calls)
        status == CheckSavepointStatus(ctx, serviceName, jobId.val,
                                       application.TriggerId, jobId.calls)
    IN  IF jobId.err # NoErr THEN Ret(NilPtr, jobId.err, jobId.calls, store)
        ELSE Ret(status.val, status.err, status.calls, store)

ErrInvalidJobId == "unable to submit job: invalid job id"

\* Variant: the answer of the submit is handed back unvalidated.
StartFlinkJob_Unvalidated(store, ctx, application, calls) ==
    LET serviceName == getJobManagerServiceName(application)
        response == SubmitJob(ctx, serviceName, application.JobJarName,
                              application.SavepointLocation, application.Parallelism, calls)
    IN  IF response.err # NoErr THEN Ret("", response.err, response.calls, store)
        ELSE Ret(response.resp.JobId, NoErr, response.calls, store)

StartFlinkJob(store, ctx, application, calls) ==
    LET serviceName == getJobManagerServiceName(application)
        response == SubmitJob(ctx, serviceName, application.JobJarName,
                              application.SavepointLocation, application.Parallelism, calls)
    IN  IF response.err # NoErr THEN Ret("", response.err, response.calls, store)
        ELSE IF response.resp.JobId = ""
        THEN Ret("", ErrInvalidJobId, response.calls, store)
        ELSE Ret(response.resp.JobId, NoErr, response.calls, store)

\* The error of GetJobConfig is assigned and never read.
IsApplicationParallelismDifferent(store, ctx, application, calls) ==
    LET serviceName == getJobManagerServiceName(application)
        jobId == getJobIdForApplication(store, ctx, application, calls)
        jobConfig == GetJobConfig(ctx, serviceName, jobId.val, jobId.calls)
    IN  IF jobId.err # NoErr THEN Ret(FALSE, jobId.err, jobId.calls, store)
        ELSE IF jobConfig.resp = NilPtr THEN Fault(jobConfig.calls, store)
        ELSE IF application.Parallelism # jobConfig.resp.Parallelism
        THEN Ret(TRUE, NoErr, jobConfig.calls, store)
        ELSE Ret(FALSE, NoErr, jobConfig.calls, store)

\* Variant: the parallelism of the job is not compared.
isClusterUpdateNeeded_ReplicasOnly(store, ctx, application, calls) ==
    LET currentAppDeployments == getDeploymentsForApp(store, ctx, application, calls)
        taskManagerReplicaCount ==
            getTaskManagerReplicaCount(currentAppDeployments.Items, application)
    IN  IF currentAppDeployments.err # NoErr
        THEN Ret(FALSE, currentAppDeployments.err, currentAppDeployments.calls, store)
        ELSE IF taskManagerReplicaCount # application.NumberTaskManagers
        THEN Ret(TRUE, NoErr, currentAppDeployments.calls, store)
        ELSE Ret(FALSE, NoErr, currentAppDeployments.calls, store)

isClusterUpdateNeeded(store, ctx, application, calls) ==
    LET currentAppDeployments == getDeploymentsForApp(store, ctx, application, calls)
        taskManagerReplicaCount ==
            getTaskManagerReplicaCount(currentAppDeployments.Items, application)
    IN  IF currentAppDeployments.err # NoErr
        THEN Ret(FALSE, currentAppDeployments.err, currentAppDeployments.calls, store)
        ELSE IF taskManagerReplicaCount # application.NumberTaskManagers
        THEN Ret(TRUE, NoErr, currentAppDeployments.calls, store)
        ELSE IsApplicationParallelismDifferent(store, ctx, application,
                                               currentAppDeployments.calls)

\* Variant: both checks are evaluated before either result is looked at.
HasApplicationChanged_Eager(store, ctx, application) ==
    LET clusterChangeNeeded == IsClusterChangeNeeded(store, ctx, application, <<>>)
        clusterUpdateNeeded ==
            isClusterUpdateNeeded(store, ctx, application, clusterChangeNeeded.calls)
    IN  IF clusterChangeNeeded.fault THEN clusterChangeNeeded
        ELSE IF clusterUpdateNeeded.fault THEN clusterUpdateNeeded
        ELSE IF clusterChangeNeeded.err # NoErr
        THEN Ret(FALSE, clusterChangeNeeded.err, clusterUpdateNeeded.calls, store)
        ELSE IF clusterUpdateNeeded.err # NoErr
        THEN Ret(FALSE, clusterUpdateNeeded.err, clusterUpdateNeeded.calls, store)
        ELSE Ret(clusterChangeNeeded.val \/ clusterUpdateNeeded.val, NoErr,
                 clusterUpdateNeeded.calls, store)

HasApplicationChanged(store, ctx, application) ==
    LET clusterChangeNeeded == IsClusterChangeNeeded(store, ctx, application, <<>>)
        clusterUpdateNeeded ==
            isClusterUpdateNeeded(store, ctx, application, clusterChangeNeeded.calls)
    IN  IF clusterChangeNeeded.fault THEN clusterChangeNeeded
        ELSE IF clusterChangeNeeded.err # NoErr
        THEN Ret(FALSE, clusterChangeNeeded.err, clusterChangeNeeded.calls, store)
        ELSE IF clusterChangeNeeded.val THEN Ret(TRUE, NoErr, clusterChangeNeeded.calls, store)
        ELSE IF clusterUpdateNeeded.fault THEN clusterUpdateNeeded
        ELSE IF clusterUpdateNeeded.err # NoErr
        THEN Ret(FALSE, clusterUpdateNeeded.err, clusterUpdateNeeded.calls, store)
        ELSE IF clusterUpdateNeeded.val THEN Ret(TRUE, NoErr, clusterUpdateNeeded.calls, store)
        ELSE Ret(FALSE, NoErr, clusterUpdateNeeded.calls, store)

----------------------------------------------------------------------------
(* State machine of the operations on the object store *)

\* The record of an invocation; pre is the store the invocation started in.
\* What was returned beside the error is kept under the name of its kind:
\* val for a boolean, jobId for a job id, jobs for a job listing; the
\* operations that return an error alone have no such field.
Invocation(op, application, r) ==
    CASE op \in {"CreateCluster", "DeleteOldCluster"} ->
            [op |-> op, app |-> application, err |-> r.err,
             fault |-> r.fault, calls |-> r.calls, pre |-> deployments]
      [] op \in {"getJobIdForApplication", "StartFlinkJob"} ->
            [op |-> op, app |-> application, jobId |-> r.val, err |-> r.err,
             fault |-> r.fault, calls |-> r.calls, pre |-> deployments]
      [] op = "CancelWithSavepoint" ->
            [op |-> op, app |-> application, triggerId |-> r.val, err |-> r.err,
             fault |-> r.fault, calls |-> r.calls, pre |-> deployments]
      [] op = "GetSavepointStatus" ->
            [op |-> op, app |-> application, savepoint |-> r.val, err |-> r.err,
             fault |-> r.fault, calls |-> r.calls, pre |-> deployments]
      [] op = "GetJobsForApplication" ->
            [op |-> op, app |-> application, jobs |-> r.val, err |-> r.err,
             fault |-> r.fault, calls |-> r.calls, pre |-> deployments]
      [] OTHER ->
            [op |-> op, app |-> application, val |-> r.val, err |-> r.err,
             fault |-> r.fault, calls |-> r.calls, pre |-> deployments]

Init ==
    /\ deployments = {}
    /\ last = [op |-> "none"]

Invoke(op, application, r) ==
    /\ Cardinality(r.store) <= MaxDeployments
    /\ deployments' = r.store
    /\ last' = Invocation(op, application, r)

DoCreateCluster ==
    \E application \in StoreApplications, failAt \in 0..2 :
        Invoke("CreateCluster", application,
               CreateCluster(deployments, Ctx(failAt, NoRemote, {}), application))

DoDeleteOldCluster ==
    \E application \in StoreApplications, failAt \in 0..2 :
        \E done \in (IF failAt = 2 THEN SUBSET deployments ELSE {{}}) :
            Invoke("DeleteOldCluster", application,
                   DeleteOldCluster(deployments, Ctx(failAt, NoRemote, done), application))

DoCheckAndUpdateTaskManager ==
    \E application \in StoreApplications, failAt \in 0..2 :
        Invoke("CheckAndUpdateTaskManager", application,
               CheckAndUpdateTaskManager(deployments, Ctx(failAt, NoRemote, {}), application))

DoIsMultipleClusterPresent ==
    \E application \in StoreApplications, failAt \in 0..1 :
        Invoke("IsMultipleClusterPresent", application,
               IsMultipleClusterPresent(deployments, Ctx(failAt, NoRemote, {}), application))

DoIsClusterChangeNeeded ==
    \E application \in StoreApplications, failAt \in 0..1 :
        Invoke("IsClusterChangeNeeded", application,
               IsClusterChangeNeeded(deployments, Ctx(failAt, NoRemote, {}), application, <<>>))

Next ==
    \/ DoCreateCluster
    \/ DoDeleteOldCluster
    \/ DoCheckAndUpdateTaskManager
    \/ DoIsMultipleClusterPresent
    \/ DoIsClusterChangeNeeded

Spec == Init /\ [][Next]_vars

----------------------------------------------------------------------------
(* One invocation of an operation on the job manager.  These operations   *)
(* read no engine state and change none, so what an invocation returns     *)
(* depends on its inputs alone: a behaviour is one invocation.             *)

Idle == last.op = "none"

\* The job manager answers only what an invocation asks of it: a listing
\* when GetJobs is called and succeeds, a parallelism when GetJobConfig is
\* called and succeeds, nil or a zero value when GetJobConfig fails.  What
\* is not asked is left at its value in NoRemote.
Asked(r, name, failed) ==
    \E i \in DOMAIN r.calls :
        r.calls[i].call = name /\ (r.calls[i].err # NoErr) = failed

ListingsFor(r, n) == IF Asked(r, "GetJobs", FALSE) THEN Listings(n) ELSE {NoRemote.Jobs}

WithJobs(jobs) == [NoRemote EXCEPT !.Jobs = jobs]

\* r is the invocation as it goes when the listing answered is jobs.
RemotesFor(r, jobs) ==
    IF Asked(r, "GetJobConfig", FALSE)
    THEN { [WithJobs(jobs) EXCEPT !.Parallelism = p] : p \in 1..MaxParallelism }
    ELSE IF Asked(r, "GetJobConfig", TRUE)
    THEN { [WithJobs(jobs) EXCEPT !.nilOnErr = b] : b \in BOOLEAN }
    ELSE {WithJobs(jobs)}

InitJobs ==
    /\ deployments = {}
    /\ last = [op |-> "none"]

DoGetActiveFlinkJob ==
    \E jobs \in Listings(MaxListing) :
        /\ last' = [op |-> "GetActiveFlinkJob", jobs |-> jobs,
                    job |-> GetActiveFlinkJob(jobs), err |-> NoErr, fault |-> FALSE,
                    calls |-> <<>>]
        /\ UNCHANGED deployments

DoGetJobsForApplication ==
    \E application \in JobApplications, failAt \in 0..1 :
        LET Op(remote) == GetJobsForApplication(deployments, Ctx(failAt, remote, {}),
                                                application, <<>>)
        IN  \E jobs \in ListingsFor(Op(NoRemote), MaxListing) :
              \E remote \in RemotesFor(Op(WithJobs(jobs)), jobs) :
                Invoke("GetJobsForApplication", application, Op(remote))

DoGetJobIdForApplication ==
    \E application \in JobApplications, failAt \in 0..1 :
        LET Op(remote) == getJobIdForApplication(deployments, Ctx(failAt, remote, {}),
                                                 application, <<>>)
        IN  \E jobs \in ListingsFor(Op(NoRemote), MaxListing) :
              \E remote \in RemotesFor(Op(WithJobs(jobs)), jobs) :
                Invoke("getJobIdForApplication", application, Op(remote))

\* The applications a job is started for: artifact, persisted savepoint
\* location and parallelism vary.
StartApplications ==
    { [Application([Name |-> "a", Image |-> "img1"], 1, par, "")
            EXCEPT !.JobJarName = jar, !.SavepointLocation = loc] :
        par \in 1..MaxParallelism, jar \in {"a.jar", "b.jar"}, loc \in {"", "sp1"} }

DoStartFlinkJob ==
    \E application \in StartApplications, failAt \in 0..1 :
        \E jobId \in (IF failAt = 0 THEN {"", "J1", "J2"} ELSE {""}) :
            Invoke("StartFlinkJob", application,
                   StartFlinkJob(deployments,
                                 Ctx(failAt, [NoRemote EXCEPT !.JobId = jobId], {}),
                                 application, <<>>))

\* The applications a job is cancelled or a savepoint polled for: with and
\* without a persisted job id, with a persisted trigger id.
SavepointApplications ==
    { [Application([Name |-> "a", Image |-> "img1"], 1, 1, job) EXCEPT !.TriggerId = "T1"] :
        job \in {"", "J2"} }

DoCancelWithSavepoint ==
    \E application \in SavepointApplications, failAt \in 0..2 :
        LET Op(remote) == CancelWithSavepoint(deployments, Ctx(failAt, remote, {}),
                                              application, <<>>)
        IN  \E jobs \in ListingsFor(Op(NoRemote), MaxListing) :
              \E requestId \in (IF Asked(Op(WithJobs(jobs)), "CancelJobWithSavepoint", FALSE)
                                 THEN {"", "T1"} ELSE {NoRemote.RequestId}) :
                Invoke("CancelWithSavepoint", application,
                       Op([WithJobs(jobs) EXCEPT !.RequestId = requestId]))

DoGetSavepointStatus ==
    \E application \in SavepointApplications, failAt \in 0..2 :
        LET Op(remote) == GetSavepointStatus(deployments, Ctx(failAt, remote, {}),
                                             application, <<>>)
        IN  \E jobs \in ListingsFor(Op(NoRemote), MaxListing) :
              \E body \in (IF Asked(Op(WithJobs(jobs)), "CheckSavepointStatus", FALSE)
                            THEN SavepointDocs ELSE {NoRemote.Body}) :
                Invoke("GetSavepointStatus", application,
                       Op([WithJobs(jobs) EXCEPT !.Body = body]))

DoIsApplicationParallelismDifferent ==
    \E application \in JobApplications, failAt \in 0..2 :
        LET Op(remote) == IsApplicationParallelismDifferent(deployments,
                              Ctx(failAt, remote, {}), application, <<>>)
        IN  \E jobs \in ListingsFor(Op(NoRemote), MaxListing) :
              \E remote \in RemotesFor(Op(WithJobs(jobs)), jobs) :
                Invoke("IsApplicationParallelismDifferent", application, Op(remote))

NextJobs ==
    \/ Idle /\ DoGetActiveFlinkJob
    \/ Idle /\ DoGetJobsForApplication
    \/ Idle /\ DoGetJobIdForApplication
    \/ Idle /\ DoIsApplicationParallelismDifferent
    \/ Idle /\ DoStartFlinkJob
    \/ Idle /\ DoCancelWithSavepoint
    \/ Idle /\ DoGetSavepointStatus

SpecJobs == InitJobs /\ [][NextJobs]_vars

----------------------------------------------------------------------------
(* One invocation of HasApplicationChanged, in any state of the object     *)
(* store that the operations on the store can leave behind.                *)

Unit(id, role, replicas) ==
    LET application == Application(id, replicas, 1, "")
    IN  [Name |-> IF role = "jm" THEN getJobManagerName(application)
                  ELSE getTaskManagerName(application),
         Namespace |-> application.Namespace,
         Labels |-> UnitLabels(application), Replicas |-> replicas]

Units ==
    { Unit(id, "jm", 1) : id \in Identities }
        \cup { Unit(id, "tm", n) : id \in Identities, n \in 1..MaxReplicas }

Stores ==
    { s \in SUBSET Units :
        /\ Cardinality(s) <= MaxDeployments
        /\ \A d, e \in s : d.Name = e.Name => d = e }

InitChanged ==
    /\ deployments \in Stores
    /\ last = [op |-> "none"]

DoHasApplicationChanged ==
    \E application \in Applications, failAt \in 0..4 :
        LET Op(remote) == HasApplicationChanged(deployments, Ctx(failAt, remote, {}),
                                                application)
        IN  \E jobs \in ListingsFor(Op(NoRemote), MaxJobs) :
              \E remote \in RemotesFor(Op(WithJobs(jobs)), jobs) :
                Invoke("HasApplicationChanged", application, Op(remote))

NextChanged == Idle /\ DoHasApplicationChanged

SpecChanged == InitChanged /\ [][NextChanged]_vars

----------------------------------------------------------------------------
(* Two invocations of CheckAndUpdateTaskManager for the same application   *)
(* running concurrently.  The engine takes no lock: an invocation makes    *)
(* its listing and its update as two external calls, and the other         *)
(* invocation may run between them.  last.procs holds the position and the *)
(* local variables of each invocation, last.order the calls in the order   *)
(* they were made.                                                         *)

Procs == {1, 2}

RaceIdentity == [Name |-> "a", Image |-> "img1"]

RaceApplications == { Application(RaceIdentity, ntm, 1, "") : ntm \in 1..MaxReplicas }

\* The store after CreateCluster for the application, or after its second
\* step failed.  The count deployed may stem from an earlier, larger desired
\* count.
RaceStores ==
    { {Unit(RaceIdentity, "jm", 1)} }
        \cup { {Unit(RaceIdentity, "jm", 1), Unit(RaceIdentity, "tm", n)} :
                  n \in 1..(MaxReplicas + 1) }

InitRace ==
    /\ deployments \in RaceStores
    /\ last = [op |-> "race", procs |-> [p \in Procs |-> [pc |-> "start"]], order |-> <<>>]

Finished(p, application, r) ==
    [pc |-> "done", app |-> application, val |-> r.val, err |-> r.err,
     fault |-> r.fault, calls |-> r.calls]

\* Invocation p is called and lists the deployments of the application.
RaceList(p) ==
    /\ last.procs[p].pc = "start"
    /\ \E application \in RaceApplications, failAt \in 0..1 :
          LET l == getDeploymentsForApp(deployments, Ctx(failAt, NoRemote, {}),
                                        application, <<>>)
              taskManagerDeployment == getTaskManagerDeployment(l.Items, application)
              next == IF l.err # NoErr
                      THEN Finished(p, application, Ret(FALSE, l.err, l.calls, deployments))
                      ELSE [pc |-> "listed", app |-> application,
                            seen |-> taskManagerDeployment, calls |-> l.calls]
          IN  last' = [last EXCEPT !.procs[p] = next,
                                   !.order = Append(@, [proc |-> p, call |-> "list"])]
    /\ UNCHANGED deployments

\* Invocation p compares, updates when the counts differ, and returns.
RaceUpdate(p) ==
    /\ last.procs[p].pc = "listed"
    /\ \E failAt \in {0, 2} :
          LET me == last.procs[p]
              r == updateTaskManager(deployments, Ctx(failAt, NoRemote, {}), me.app,
                                     me.seen, me.calls)
          IN  /\ deployments' = r.store
              /\ last' = [last EXCEPT !.procs[p] = Finished(p, me.app, r),
                                       !.order = Append(@, [proc |-> p, call |-> "update"])]

NextRace == \E p \in Procs : RaceList(p) \/ RaceUpdate(p)

SpecRace == InitRace /\ [][NextRace]_vars

----------------------------------------------------------------------------
(* Decoding of the wire model: one status, or one savepoint response       *)
(* decoded and encoded again.                                              *)

InitWire ==
    /\ deployments = {}
    /\ last = [op |-> "none"]

Decoded(kind, wire) ==
    [op |-> "DecodeStatus", kind |-> kind, wire |-> wire, status |-> DecodeStatus(wire)]

DoDecodeJobStatus ==
    /\ \E wire \in WireStatuses : last' = Decoded("job", wire)
    /\ UNCHANGED deployments

DoDecodeSavepointStatus ==
    /\ \E wire \in WireStatuses : last' = Decoded("savepoint", wire)
    /\ UNCHANGED deployments

DoDecodeCheckpointStatus ==
    /\ \E wire \in WireStatuses : last' = Decoded("checkpoint", wire)
    /\ UNCHANGED deployments

DoSavepointRoundTrip ==
    /\ \E doc \in SavepointDocs :
          last' = [op |-> "SavepointRoundTrip", doc |-> doc,
                   savepoint |-> DecodeSavepointResponse(doc),
                   encoded |-> EncodeSavepointResponse(DecodeSavepointResponse(doc))]
    /\ UNCHANGED deployments

NextWire ==
    \/ Idle /\ DoDecodeJobStatus
    \/ Idle /\ DoDecodeSavepointStatus
    \/ Idle /\ DoDecodeCheckpointStatus
    \/ Idle /\ DoSavepointRoundTrip

SpecWire == InitWire /\ [][NextWire]_vars

----------------------------------------------------------------------------
(* One invocation of an operation that ends in a mutating external call:    *)
(* the cancel of CancelWithSavepoint, the poll of GetSavepointStatus, the   *)
(* update of CheckAndUpdateTaskManager, the delete of DeleteOldCluster.     *)
(* CancelWithSavepoint and GetSavepointStatus make no call to the object    *)
(* store, so they are invoked from the empty store alone.                   *)

InitSteps ==
    /\ deployments \in Stores
    /\ last = [op |-> "none"]

NextSteps ==
    \/ Idle /\ DoCheckAndUpdateTaskManager
    \/ Idle /\ DoDeleteOldCluster
    \/ Idle /\ deployments = {} /\ DoCancelWithSavepoint
    \/ Idle /\ deployments = {} /\ DoGetSavepointStatus

SpecSteps == InitSteps /\ [][NextSteps]_vars

----------------------------------------------------------------------------
(* Two invocations for the same application, one after the other, with no  *)
(* other writer to the object store in between.  The second invocation     *)
(* keeps in last.prev what the first was: its operation, its application,  *)
(* whether it returned changed = true, its error, whether it faulted and    *)
(* the external calls it made.                                              *)

\* The job listings answered where the invocations follow one another: none,
\* an active job, a job that is not active.
SessionListings ==
    { <<>>, <<[JobId |-> "J1", Status |-> FlinkJobRunning]>>,
      <<[JobId |-> "J1", Status |-> FlinkJobFinished]>> }

NoApplication == Application([Name |-> "", Image |-> ""], 0, 0, "")

Summary(l) ==
    IF l.op = "none"
    THEN [op |-> "none", app |-> NoApplication, changed |-> FALSE, err |-> NoErr,
          fault |-> FALSE, calls |-> <<>>]
    ELSE [op |-> l.op, app |-> l.app,
          changed |-> (l.op = "CheckAndUpdateTaskManager" /\ l.val),
          err |-> l.err, fault |-> l.fault, calls |-> l.calls]

\* The application the two invocations are for, with each desired count, and
\* the stores holding deployments of its name alone, of either image.
SerialApplications ==
    { Application([Name |-> "a", Image |-> "img1"], ntm, 1, "") : ntm \in 1..MaxReplicas }

SerialStores == { s \in Stores : \A d \in s : d.Labels.app = "a" }

InitSerial ==
    /\ deployments \in SerialStores
    /\ last = [op |-> "none"]

\* The application is any one for the first invocation and the same one for
\* the second.
Turn(application) ==
    \/ Idle
    \/ last.op # "none" /\ last.prev.op = "none" /\ application = last.app

Serial(op, application, r) ==
    /\ Turn(application)
    /\ deployments' = r.store
    /\ last' = Invocation(op, application, r) @@ [prev |-> Summary(last)]

SerialDeleteOldCluster ==
    \E application \in SerialApplications, failAt \in 0..2 :
        \E done \in (IF failAt = 2 THEN SUBSET deployments ELSE {{}}) :
            Serial("DeleteOldCluster", application,
                   DeleteOldCluster(deployments, Ctx(failAt, NoRemote, done), application))

SerialCheckAndUpdateTaskManager ==
    \E application \in SerialApplications, failAt \in 0..2 :
        Serial("CheckAndUpdateTaskManager", application,
               CheckAndUpdateTaskManager(deployments, Ctx(failAt, NoRemote, {}), application))

SerialIsMultipleClusterPresent ==
    \E application \in SerialApplications, failAt \in 0..1 :
        Serial("IsMultipleClusterPresent", application,
               IsMultipleClusterPresent(deployments, Ctx(failAt, NoRemote, {}), application))

\* The check the engine makes inside HasApplicationChanged, as the second
\* invocation.
SerialIsClusterUpdateNeeded ==
    \E application \in SerialApplications, failAt \in 0..3 :
        LET Op(remote) == isClusterUpdateNeeded(deployments, Ctx(failAt, remote, {}),
                                                application, <<>>)
        IN  \E jobs \in (IF Asked(Op(NoRemote), "GetJobs", FALSE) THEN SessionListings
                          ELSE {NoRemote.Jobs}) :
              \E remote \in RemotesFor(Op(WithJobs(jobs)), jobs) :
                ~Idle /\ Serial("isClusterUpdateNeeded", application, Op(remote))

NextSerial ==
    \/ SerialDeleteOldCluster
    \/ SerialCheckAndUpdateTaskManager
    \/ SerialIsMultipleClusterPresent
    \/ SerialIsClusterUpdateNeeded

SpecSerial == InitSerial /\ [][NextSerial]_vars

----------------------------------------------------------------------------
(* A session: any sequence of invocations for one application, each given  *)
(* the application as the one before left it.  The operations take the      *)
(* application by reference and are methods of one controller value, so     *)
(* an invocation hands on both: last.after is the application after the     *)
(* invocation, last.engine the controller after it.  last.start keeps the   *)
(* persisted status the session began with, last.prevOp the operation       *)
(* invoked before.                                                          *)

NewFlinkController ==
    [k8Cluster |-> "k8.NewK8Cluster", flinkJobManager |-> "NewFlinkJobManagerController",
     FlinkTaskManager |-> "NewFlinkTaskManagerController",
     flinkClient |-> "client.NewFlinkJobManagerClient"]

\* The persisted status of an application.
StatusOf(application) ==
    [ActiveJobId |-> application.ActiveJobId, TriggerId |-> application.TriggerId,
     SavepointLocation |-> application.SavepointLocation]

\* Variant: the operation records what it returned in the status.
ApplicationAfter_RecordsResult(op, application, r) ==
    IF r.err # NoErr \/ r.fault THEN application
    ELSE IF op = "StartFlinkJob" THEN [application EXCEPT !.ActiveJobId = r.val]
    ELSE IF op = "CancelWithSavepoint" THEN [application EXCEPT !.TriggerId = r.val]
    ELSE IF op = "GetSavepointStatus"
    THEN [application EXCEPT !.SavepointLocation = r.val.Operation.Location]
    ELSE application

\* The application as an invocation leaves it: no operation assigns to a
\* field of the application it is given; CheckAndUpdateTaskManager takes the
\* address of the desired count and does not write through it.
ApplicationAfter(op, application, r) == application

\* The controller as an invocation leaves it: its four fields are set by the
\* constructor and no method assigns to them.
ControllerAfter(op, engine, r) == engine

SessionApplications ==
    { [Application([Name |-> "a", Image |-> "img1"], ntm, 1, job)
            EXCEPT !.TriggerId = trigger] :
        ntm \in 1..MaxReplicas, job \in {"", "J2"}, trigger \in {"", "T1"} }

SessionStores ==
    { {}, {Unit([Name |-> "a", Image |-> "img2"], "jm", 1),
           Unit([Name |-> "a", Image |-> "img2"], "tm", 1)} }

SessionBodies ==
    { d \in SavepointDocs : d.causeName = "" /\ d.status = Present(SavePointCompleted) }

SessionRemotes(r) ==
    { [NoRemote EXCEPT !.Jobs = jobs, !.JobId = jobId, !.RequestId = requestId,
                       !.Body = body] :
        jobs \in (IF Asked(r, "GetJobs", FALSE) THEN SessionListings ELSE {NoRemote.Jobs}),
        jobId \in (IF Asked(r, "SubmitJob", FALSE) THEN {"", "J1"} ELSE {NoRemote.JobId}),
        requestId \in (IF Asked(r, "CancelJobWithSavepoint", FALSE) THEN {"", "T2"}
                       ELSE {NoRemote.RequestId}),
        body \in (IF Asked(r, "CheckSavepointStatus", FALSE) THEN SessionBodies
                  ELSE {NoRemote.Body}) }

InitSession ==
    /\ deployments \in SessionStores
    /\ \E application \in SessionApplications :
          last = [op |-> "none", after |-> application, start |-> StatusOf(application),
                  engine |-> NewFlinkController, prevOp |-> "none"]

SessionInvoke(op, r) ==
    /\ Cardinality(r.store) <= MaxDeployments
    /\ deployments' = r.store
    /\ last' = Invocation(op, last.after, r)
                  @@ [after |-> ApplicationAfter(op, last.after, r), start |-> last.start,
                      engine |-> ControllerAfter(op, last.engine, r), prevOp |-> last.op]

SessionCreateCluster ==
    \E failAt \in 0..2 :
        SessionInvoke("CreateCluster",
                      CreateCluster(deployments, Ctx(failAt, NoRemote, {}), last.after))

SessionDeleteOldCluster ==
    \E failAt \in 0..2 :
        SessionInvoke("DeleteOldCluster",
                      DeleteOldCluster(deployments, Ctx(failAt, NoRemote, {}), last.after))

SessionCheckAndUpdateTaskManager ==
    \E failAt \in 0..2 :
        SessionInvoke("CheckAndUpdateTaskManager",
                      CheckAndUpdateTaskManager(deployments, Ctx(failAt, NoRemote, {}),
                                                last.after))

SessionIsMultipleClusterPresent ==
    \E failAt \in 0..1 :
        SessionInvoke("IsMultipleClusterPresent",
                      IsMultipleClusterPresent(deployments, Ctx(failAt, NoRemote, {}),
                                               last.after))

SessionStartFlinkJob ==
    \E failAt \in 0..1 :
        LET Op(remote) == StartFlinkJob(deployments, Ctx(failAt, remote, {}), last.after, <<>>)
        IN  \E remote \in SessionRemotes(Op(NoRemote)) :
              SessionInvoke("StartFlinkJob", Op(remote))

SessionCancelWithSavepoint ==
    \E failAt \in 0..2 :
        LET Op(remote) == CancelWithSavepoint(deployments, Ctx(failAt, remote, {}),
                                              last.after, <<>>)
        IN  \E first \in SessionRemotes(Op(NoRemote)) :
              \E remote \in SessionRemotes(Op(first)) :
                remote.Jobs = first.Jobs /\ SessionInvoke("CancelWithSavepoint", Op(remote))

SessionGetSavepointStatus ==
    \E failAt \in 0..2 :
        LET Op(remote) == GetSavepointStatus(deployments, Ctx(failAt, remote, {}),
                                             last.after, <<>>)
        IN  \E first \in SessionRemotes(Op(NoRemote)) :
              \E remote \in SessionRemotes(Op(first)) :
                remote.Jobs = first.Jobs /\ SessionInvoke("GetSavepointStatus", Op(remote))

SessionHasApplicationChanged ==
    \E failAt \in 0..4 :
        LET Op(remote) == HasApplicationChanged(deployments, Ctx(failAt, remote, {}),
                                                last.after)
        IN  \E jobs \in (IF Asked(Op(NoRemote), "GetJobs", FALSE) THEN SessionListings
                          ELSE {NoRemote.Jobs}) :
              \E remote \in RemotesFor(Op(WithJobs(jobs)), jobs) :
                SessionInvoke("HasApplicationChanged", Op(remote))

NextSession ==
    \/ SessionCreateCluster
    \/ SessionDeleteOldCluster
    \/ SessionCheckAndUpdateTaskManager
    \/ SessionIsMultipleClusterPresent
    \/ SessionStartFlinkJob
    \/ SessionCancelWithSavepoint
    \/ SessionGetSavepointStatus
    \/ SessionHasApplicationChanged

SpecSession == InitSession /\ [][NextSession]_vars

----------------------------------------------------------------------------
(* The notions the properties are stated in, defined on the store and on  *)
(* the record of an invocation rather than by the operations themselves.   *)

OfApp(d, application) ==
    d.Namespace = application.Namespace /\ d.Labels.app = application.Name

OfImage(d, application) == d.Labels.imageKey = GetImageKey(application.Image)

\* The deployment partition of an application.
CurrentSet(store, application) ==
    {d \in store : OfApp(d, application) /\ OfImage(d, application)}

OldSet(store, application) ==
    {d \in store : OfApp(d, application) /\ ~OfImage(d, application)}

TaskManagersOf(store, application) ==
    {d \in store : d.Namespace = application.Namespace
                     /\ d.Name = getTaskManagerName(application)}

JobManagersOf(store, application) ==
    {d \in store : d.Namespace = application.Namespace
                     /\ d.Name = getJobManagerName(application)}

CallsTo(name) == {i \in DOMAIN last.calls : last.calls[i].call = name}

FailedCalls == {i \in DOMAIN last.calls : last.calls[i].err # NoErr}

IsActive(job) == job.Status \in {FlinkJobCreated, FlinkJobRunning}

ActivePositions(jobs) == {i \in DOMAIN jobs : IsActive(jobs[i])}

\* The least position holding an active job.
FirstActivePosition(jobs) ==
    CHOOSE i \in ActivePositions(jobs) : \A j \in ActivePositions(jobs) : i <= j

----------------------------------------------------------------------------
(* C1: every external call surfaces its error unchanged: whenever an       *)
(* external call made during an invocation fails, the operation returns    *)
(* that same error and no success result.                                  *)

C1_ErrorsSurfaceUnchanged ==
    last.op # "none" =>
        \A i \in FailedCalls : ~last.fault /\ last.err = last.calls[i].err

----------------------------------------------------------------------------
(* C2: IsClusterChangeNeeded returns true iff the CURRENT set of the       *)
(* deployment partition of the application is empty, in every state of     *)
(* the object store.                                                       *)

C2_ChangeNeededIffCurrentEmpty ==
    (last.op = "IsClusterChangeNeeded" /\ last.err = NoErr) =>
        (last.val <=> CurrentSet(deployments, last.app) = {})

----------------------------------------------------------------------------
(* C3: no operation faults: every invocation finishes by returning a       *)
(* result or an error, also CheckAndUpdateTaskManager on an application    *)
(* without a task-manager deployment.                                      *)

C3_NoUncatchableFault == last.op # "none" => ~last.fault

----------------------------------------------------------------------------
(* C4: when all external calls succeed, HasApplicationChanged is the       *)
(* disjunction of: no deployment exists for the desired image              *)
(* (IsClusterChangeNeeded), the replica count of the task-manager          *)
(* deployment differs from the desired count, the parallelism of the       *)
(* remote job differs from the desired parallelism.  The third is read     *)
(* from the job manager when the first two are false, for the job id the   *)
(* resolution policy yields.                                               *)

NoDeploymentForImage(store, application) ==
    ~\E d \in store : d.Namespace = application.Namespace /\ OfImage(d, application)

TaskManagerReplicas(store, application) ==
    IF TaskManagersOf(store, application) = {} THEN 0
    ELSE (CHOOSE d \in TaskManagersOf(store, application) : TRUE).Replicas

ReplicaMismatch(store, application) ==
    TaskManagerReplicas(store, application) # application.NumberTaskManagers

\* The job listing the invocation was given, if it asked for one.
ListingSeen ==
    IF CallsTo("GetJobs") = {} THEN <<>>
    ELSE last.calls[CHOOSE i \in CallsTo("GetJobs") : TRUE].resp.jobs

\* The job id the resolution policy yields for the invocation, "" if none.
ResolvedJobId ==
    IF last.app.ActiveJobId # "" THEN last.app.ActiveJobId
    ELSE IF ActivePositions(ListingSeen) = {} THEN ""
    ELSE ListingSeen[FirstActivePosition(ListingSeen)].JobId

\* The job configurations the invocation was given for the resolved job.
ConfigSeen ==
    { last.calls[i].resp.config : i \in { j \in CallsTo("GetJobConfig") :
        last.calls[j].arg.job = <<getJobManagerServiceName(last.app), ResolvedJobId>> } }

ParallelismMismatch ==
    \E c \in ConfigSeen : c.Parallelism # last.app.Parallelism

C4_ChangedIsDisjunction ==
    (last.op = "HasApplicationChanged" /\ FailedCalls = {}) =>
        LET early == NoDeploymentForImage(deployments, last.app)
                        \/ ReplicaMismatch(deployments, last.app)
        IN  /\ ~last.fault
            /\ (early \/ ResolvedJobId # "") =>
                  /\ last.err = NoErr
                  /\ last.val <=> (early \/ ParallelismMismatch)
                  /\ ~early => Cardinality(ConfigSeen) = 1

C4_Witness ==
    /\ last.op = "HasApplicationChanged" /\ FailedCalls = {}
    /\ ~NoDeploymentForImage(deployments, last.app)
    /\ ~ReplicaMismatch(deployments, last.app)
    /\ ParallelismMismatch
    /\ last.err = NoErr /\ last.val = TRUE

----------------------------------------------------------------------------
(* C5: CheckAndUpdateTaskManager on an application whose task-manager      *)
(* deployment exists: when its replica count differs from the desired      *)
(* count, exactly one update is issued, for that deployment with the       *)
(* desired count, and the result is changed = true with the count stored;  *)
(* when the update fails the result is that error with changed = false;    *)
(* when the counts are equal the result is false and no update is issued.  *)

C5_ScalesOnceWhenCountsDiffer ==
    LET application == last.app
        tm == CHOOSE d \in TaskManagersOf(last.pre, application) : TRUE
        updates == CallsTo("UpdateK8Object")
        scaled == [tm EXCEPT !.Replicas = application.NumberTaskManagers]
    IN  ( /\ last.op = "CheckAndUpdateTaskManager"
          /\ last.calls[1].err = NoErr
          /\ TaskManagersOf(last.pre, application) # {} ) =>
            /\ ~last.fault
            /\ IF tm.Replicas # application.NumberTaskManagers
               THEN /\ Cardinality(updates) = 1
                    /\ \A i \in updates :
                          /\ last.calls[i].arg.object = scaled
                          /\ IF last.calls[i].err = NoErr
                             THEN /\ last.val = TRUE /\ last.err = NoErr
                                  /\ deployments = (last.pre \ {tm}) \cup {scaled}
                             ELSE /\ last.val = FALSE
                                  /\ last.err = last.calls[i].err
                                  /\ deployments = last.pre
               ELSE /\ updates = {}
                    /\ last.val = FALSE /\ last.err = NoErr
                    /\ deployments = last.pre

C5_Witness ==
    /\ last.op = "CheckAndUpdateTaskManager"
    /\ last.val = TRUE /\ last.err = NoErr
    /\ Cardinality(CallsTo("UpdateK8Object")) = 1
    /\ TaskManagerReplicas(deployments, last.app) = last.app.NumberTaskManagers

----------------------------------------------------------------------------
(* C6: job-id resolution: a non-empty persisted active job id is returned  *)
(* and the job listing is not fetched; otherwise the id of the first job   *)
(* of the listing, in listing order, that is CREATED or RUNNING is         *)
(* returned; with no such job the resolution error and no job id is        *)
(* returned.                                                               *)

C6_JobIdResolution ==
    last.op = "getJobIdForApplication" =>
        /\ ~last.fault
        /\ last.app.ActiveJobId # "" =>
              /\ last.jobId = last.app.ActiveJobId /\ last.err = NoErr
              /\ last.calls = <<>>
        /\ (last.app.ActiveJobId = "" /\ FailedCalls = {}) =>
              /\ Cardinality(CallsTo("GetJobs")) = 1
              /\ IF ActivePositions(ListingSeen) # {}
                 THEN /\ last.err = NoErr
                      /\ last.jobId = ListingSeen[FirstActivePosition(ListingSeen)].JobId
                 ELSE /\ last.err = ErrInvalidJobs
                      /\ last.jobId = ""

C6_Witness ==
    /\ last.op = "getJobIdForApplication"
    /\ last.app.ActiveJobId = "" /\ FailedCalls = {}
    /\ Cardinality(ActivePositions(ListingSeen)) >= 2
    /\ last.jobId = ListingSeen[1].JobId

----------------------------------------------------------------------------
(* C7: GetActiveFlinkJob returns the first job of the listing, in list     *)
(* order, whose status is CREATED or RUNNING, and none when the listing    *)
(* is empty or holds no such job.                                          *)

C7_FirstActiveJob ==
    last.op = "GetActiveFlinkJob" =>
        IF \E i \in DOMAIN last.jobs :
               last.jobs[i].Status \in {FlinkJobCreated, FlinkJobRunning}
        THEN \E i \in DOMAIN last.jobs :
                /\ last.job = last.jobs[i]
                /\ last.jobs[i].Status \in {FlinkJobCreated, FlinkJobRunning}
                /\ \A j \in 1..(i - 1) :
                      last.jobs[j].Status \notin {FlinkJobCreated, FlinkJobRunning}
        ELSE last.job = NilPtr

C7_Witness ==
    /\ last.op = "GetActiveFlinkJob"
    /\ Len(last.jobs) = 2
    /\ last.jobs[1].Status = FlinkJobFailing
    /\ last.jobs[2].Status = FlinkJobCreated
    /\ last.job = last.jobs[2]

----------------------------------------------------------------------------
(* C8: IsMultipleClusterPresent returns true iff both the CURRENT and the  *)
(* OLD set of the application's partition are non-empty, and the list      *)
(* error when the listing fails.                                           *)

C8_MultipleIffCurrentAndOld ==
    last.op = "IsMultipleClusterPresent" =>
        /\ ~last.fault
        /\ Len(last.calls) = 1
        /\ IF last.calls[1].err # NoErr
           THEN last.err = last.calls[1].err /\ last.val = FALSE
           ELSE /\ last.err = NoErr
                /\ last.val <=> ( /\ CurrentSet(deployments, last.app) # {}
                                  /\ OldSet(deployments, last.app) # {} )

C8_Witness ==
    /\ last.op = "IsMultipleClusterPresent"
    /\ last.val = TRUE
    /\ CurrentSet(deployments, last.app) # {}
    /\ OldSet(deployments, last.app) # {}

----------------------------------------------------------------------------
(* C9: DeleteOldCluster passes exactly the OLD set of the application to   *)
(* the delete capability, in one call, and with success exactly the OLD    *)
(* set is gone; nothing outside the OLD set is ever removed; with an       *)
(* empty OLD set no delete call is issued and the call succeeds.           *)

C9_DeletesExactlyOld ==
    LET old == OldSet(last.pre, last.app)
        deletes == CallsTo("DeleteDeployments")
    IN  (last.op = "DeleteOldCluster" /\ last.calls[1].err = NoErr) =>
            /\ ~last.fault
            /\ \A i \in deletes : last.calls[i].arg.targets = old
            /\ (last.pre \ deployments) \subseteq old
            /\ deployments \subseteq last.pre
            /\ IF old = {}
               THEN deletes = {} /\ last.err = NoErr /\ deployments = last.pre
               ELSE /\ Cardinality(deletes) = 1
                    /\ last.err = NoErr => deployments = last.pre \ old

C9_Witness ==
    /\ last.op = "DeleteOldCluster" /\ last.err = NoErr
    /\ Cardinality(CallsTo("DeleteDeployments")) = 1
    /\ CurrentSet(deployments, last.app) # {}
    /\ \E d \in deployments : ~OfApp(d, last.app)

----------------------------------------------------------------------------
(* C10: CreateCluster calls the job-manager provisioner first and the      *)
(* task-manager provisioner only after it succeeded; when the              *)
(* task-manager step fails the error is returned and the job-manager unit  *)
(* is in place; after a success, whatever the invocations before,          *)
(* exactly one job-manager unit and one task-manager unit exist.           *)

C10_CreateInOrder ==
    last.op = "CreateCluster" =>
        /\ ~last.fault
        /\ Len(last.calls) \in {1, 2}
        /\ last.calls[1].call = "JobManager.CreateIfNotExist"
        /\ IF last.calls[1].err # NoErr
           THEN Len(last.calls) = 1 /\ last.err = last.calls[1].err
           ELSE /\ Len(last.calls) = 2
                /\ last.calls[2].call = "TaskManager.CreateIfNotExist"
                /\ last.err = last.calls[2].err
                /\ Cardinality(JobManagersOf(deployments, last.app)) = 1
                /\ last.err = NoErr =>
                      Cardinality(TaskManagersOf(deployments, last.app)) = 1

C10_Witness ==
    /\ last.op = "CreateCluster" /\ last.err = NoErr
    /\ Cardinality(JobManagersOf(deployments, last.app)) = 1
    /\ Cardinality(TaskManagersOf(deployments, last.app)) = 1
    /\ TaskManagerReplicas(deployments, last.app) # last.app.NumberTaskManagers

----------------------------------------------------------------------------
(* C11: StartFlinkJob makes one submit call carrying the desired job       *)
(* artifact, the persisted savepoint location and the desired parallelism; *)
(* when the call returns no transport error but an empty job id, the       *)
(* result is the validation error and no job id; a success carries the     *)
(* non-empty job id the remote API returned; a transport error is          *)
(* returned with no job id.                                                *)

C11_StartValidatesJobId ==
    last.op = "StartFlinkJob" =>
        /\ ~last.fault
        /\ Len(last.calls) = 1
        /\ last.calls[1].call = "SubmitJob"
        /\ last.calls[1].arg.submit =
              [service |-> getJobManagerServiceName(last.app),
               jar |-> last.app.JobJarName,
               savepointPath |-> last.app.SavepointLocation,
               parallelism |-> last.app.Parallelism]
        /\ IF last.calls[1].err # NoErr
           THEN last.err = last.calls[1].err /\ last.jobId = ""
           ELSE IF last.calls[1].resp.jobid = ""
           THEN last.err = ErrInvalidJobId /\ last.jobId = ""
           ELSE last.err = NoErr /\ last.jobId = last.calls[1].resp.jobid
        /\ last.err = NoErr => last.jobId # ""

C11_Witness ==
    /\ last.op = "StartFlinkJob"
    /\ FailedCalls = {}
    /\ last.calls[1].resp.jobid = ""
    /\ last.err = ErrInvalidJobId
    /\ last.app.SavepointLocation = "sp1"

----------------------------------------------------------------------------
(* C12: reconciliations of different applications are independent: the     *)
(* result of an operation on an application is the same in two states of   *)
(* the object store that differ only in the deployments of other           *)
(* applications, here the store the invocation ran in and that store       *)
(* without the deployments of the other applications.                      *)

OwnObjects(store, application) == {d \in store : OfApp(d, application)}

C12_IndependentOfOtherApplications ==
    LET alone == OwnObjects(last.pre, last.app)
        ctx == Ctx(0, NoRemote, {})
    IN  /\ (last.op = "IsClusterChangeNeeded" /\ FailedCalls = {}) =>
              last.val = IsClusterChangeNeeded(alone, ctx, last.app, <<>>).val
        /\ (last.op = "IsMultipleClusterPresent" /\ FailedCalls = {}) =>
              last.val = IsMultipleClusterPresent(alone, ctx, last.app).val

----------------------------------------------------------------------------
(* C13: concurrent CheckAndUpdateTaskManager invocations for the same      *)
(* application race: whenever both have listed before either updates and   *)
(* both saw a replica count different from their desired count, both       *)
(* issue an update for the same deployment and, unless its update fails,   *)
(* each returns changed = true; the deployment ends with the count of the  *)
(* invocation that updated last, which may be the one that read first.     *)

ListedAt(p) == CHOOSE i \in DOMAIN last.order :
                  last.order[i] = [proc |-> p, call |-> "list"]

UpdatedAt(p) == CHOOSE i \in DOMAIN last.order :
                   last.order[i] = [proc |-> p, call |-> "update"]

BothDone == \A p \in Procs : last.procs[p].pc = "done"

\* Both invocations listed, without error, before either updated.
Overlapped ==
    /\ BothDone
    /\ \A p \in Procs : last.procs[p].calls[1].err = NoErr
    /\ \A p, q \in Procs : ListedAt(p) < UpdatedAt(q)

UpdatesOf(p) ==
    {i \in DOMAIN last.procs[p].calls : last.procs[p].calls[i].call = "UpdateK8Object"}

\* The replica count both invocations saw in their listings.
SeenReplicas(p) ==
    (CHOOSE d \in last.procs[p].calls[1].resp.items :
        d.Name = getTaskManagerName(last.procs[p].app)).Replicas

C13_ConcurrentUpdatesRace ==
    ( /\ last.op = "race" /\ Overlapped
      /\ \A p \in Procs :
            /\ TaskManagersOf(last.procs[p].calls[1].resp.items, last.procs[p].app) # {}
            /\ SeenReplicas(p) # last.procs[p].app.NumberTaskManagers ) =>
        /\ \A p \in Procs :
              /\ ~last.procs[p].fault
              /\ Cardinality(UpdatesOf(p)) = 1
              /\ \A i \in UpdatesOf(p) :
                    /\ last.procs[p].calls[i].arg.object.Name =
                          getTaskManagerName(last.procs[p].app)
                    /\ last.procs[p].calls[i].arg.object.Replicas =
                          last.procs[p].app.NumberTaskManagers
                    /\ IF last.procs[p].calls[i].err = NoErr
                       THEN last.procs[p].val = TRUE /\ last.procs[p].err = NoErr
                       ELSE last.procs[p].val = FALSE
                              /\ last.procs[p].err = last.procs[p].calls[i].err
        /\ \A p \in Procs :
              ( /\ \A q \in Procs : UpdatedAt(q) <= UpdatedAt(p)
                /\ last.procs[p].err = NoErr ) =>
                  TaskManagerReplicas(deployments, last.procs[p].app) =
                      last.procs[p].app.NumberTaskManagers

C13_Witness ==
    /\ last.op = "race" /\ Overlapped
    /\ \A p \in Procs : last.procs[p].val = TRUE /\ last.procs[p].err = NoErr
    /\ last.procs[1].app.NumberTaskManagers # last.procs[2].app.NumberTaskManagers
    /\ \E p \in Procs :
          /\ \A q \in Procs : ListedAt(p) <= ListedAt(q)
          /\ TaskManagerReplicas(deployments, last.procs[p].app) =
                last.procs[p].app.NumberTaskManagers

----------------------------------------------------------------------------
(* C16: decoding a job, savepoint or checkpoint status is closed: the      *)
(* decoded status is one of the enumerated members of its kind or the      *)
(* unset member, whatever string the wire carried and also when the        *)
(* member was absent.                                                      *)

MembersOf(kind) ==
    CASE kind = "job" -> FlinkJobStatus
      [] kind = "savepoint" -> SavepointStatus
      [] kind = "checkpoint" -> CheckpointStatus

C16_DecodedStatusIsMember ==
    last.op = "DecodeStatus" => last.status \in MembersOf(last.kind) \cup {""}

----------------------------------------------------------------------------
(* C15: a savepoint response received with a populated                     *)
(* operation.failure-cause is returned by GetSavepointStatus with that     *)
(* class and stack trace and with the status as received, and encoding     *)
(* the returned record writes the failure cause under the member name      *)
(* failure-cause.                                                          *)

\* The body the poll of the invocation was answered with.
BodySeen == last.calls[CHOOSE i \in CallsTo("CheckSavepointStatus") : TRUE].resp.body

C15_FailureCauseSurvives ==
    ( /\ last.op = "GetSavepointStatus" /\ last.err = NoErr
      /\ BodySeen.causeName = "failure-cause" ) =>
        /\ last.savepoint.Operation.FailureCause = BodySeen.cause
        /\ last.savepoint.SavepointStatus.Status = DecodeStatus(BodySeen.status)
        /\ EncodeSavepointResponse(last.savepoint).causeName = "failure-cause"

----------------------------------------------------------------------------
(* C20: HasApplicationChanged evaluates its checks in a fixed order and    *)
(* stops at the first true one.  With no deployment for the desired image  *)
(* it returns true after the image listing alone; with a differing         *)
(* task-manager replica count it returns true after the two listings and   *)
(* without a call to the job manager; a failure of the job manager or of   *)
(* the job-id resolution is returned only when both earlier checks were    *)
(* false.                                                                  *)

JobManagerCalls == CallsTo("GetJobs") \cup CallsTo("GetJobConfig")

\* The calls of the invocation that list by the given labels.
ListingsBy(labels) ==
    {i \in CallsTo("GetDeploymentsWithLabel") : last.calls[i].arg.labels = labels}

JobManagerErrors == {"ErrGetJobs", "ErrGetJobConfig", ErrInvalidJobs}

C20_StopsAtFirstTrue ==
    last.op = "HasApplicationChanged" =>
        LET noImage == NoDeploymentForImage(last.pre, last.app)
            replicas == ReplicaMismatch(last.pre, last.app)
            imageLabel == GetImageLabel(GetImageKey(last.app.Image))
            appLabel == GetAppLabel(last.app.Name)
        IN  /\ (noImage /\ FailedCalls = {}) =>
                  /\ last.val = TRUE /\ last.err = NoErr /\ ~last.fault
                  /\ ListingsBy(imageLabel) = {1} /\ Len(last.calls) = 1
                  /\ ListingsBy(appLabel) = {} /\ JobManagerCalls = {}
            /\ (~noImage /\ replicas /\ FailedCalls = {}) =>
                  /\ last.val = TRUE /\ last.err = NoErr /\ ~last.fault
                  /\ ListingsBy(imageLabel) = {1} /\ ListingsBy(appLabel) = {2}
                  /\ Len(last.calls) = 2 /\ JobManagerCalls = {}
            /\ (noImage \/ replicas) => JobManagerCalls = {}
            /\ (last.err \in JobManagerErrors \/ last.fault \/ JobManagerCalls # {}) =>
                  (~noImage /\ ~replicas)

C20_Witness ==
    /\ last.op = "HasApplicationChanged" /\ FailedCalls = {}
    /\ ~NoDeploymentForImage(last.pre, last.app)
    /\ ReplicaMismatch(last.pre, last.app)
    /\ OldSet(last.pre, last.app) # {}
    /\ last.val = TRUE /\ Len(last.calls) = 2

----------------------------------------------------------------------------
(* C18: cleanup converges.  After DeleteOldCluster has returned without    *)
(* error, and with no other writer to the object store in between,         *)
(* IsMultipleClusterPresent for the same application returns false and a    *)
(* second DeleteOldCluster issues no delete call.                           *)

\* The invocation follows one of the operation for the same application that
\* returned without error.
Follows(op) ==
    /\ last.op # "none"
    /\ last.prev.op = op /\ last.prev.app = last.app
    /\ last.prev.err = NoErr /\ ~last.prev.fault

C18_CleanupConverges ==
    Follows("DeleteOldCluster") =>
        /\ (last.op = "IsMultipleClusterPresent" /\ last.err = NoErr) => last.val = FALSE
        /\ last.op = "DeleteOldCluster" => CallsTo("DeleteDeployments") = {}
        /\ OldSet(last.pre, last.app) = {}

C18_Witness ==
    /\ Follows("DeleteOldCluster")
    /\ \E i \in DOMAIN last.prev.calls : last.prev.calls[i].call = "DeleteDeployments"
    /\ CurrentSet(last.pre, last.app) # {}
    /\ last.op = "IsMultipleClusterPresent" /\ last.err = NoErr /\ last.val = FALSE

----------------------------------------------------------------------------
(* C19: scaling is idempotent under serialized invocation.  After          *)
(* CheckAndUpdateTaskManager has returned changed = true, with the desired  *)
(* count and the object store otherwise unchanged, the next                 *)
(* CheckAndUpdateTaskManager for the application returns false and issues   *)
(* no update, and isClusterUpdateNeeded does not report a differing         *)
(* replica count: it goes on to the parallelism of the job.                 *)

C19_ScalingIdempotent ==
    (Follows("CheckAndUpdateTaskManager") /\ last.prev.changed) =>
        /\ last.op = "CheckAndUpdateTaskManager" =>
              /\ last.val = FALSE /\ ~last.fault
              /\ CallsTo("UpdateK8Object") = {}
        /\ (last.op = "isClusterUpdateNeeded" /\ FailedCalls = {}) =>
              /\ ~ReplicaMismatch(last.pre, last.app)
              /\ CallsTo("GetJobs") # {}
              /\ last.val => ParallelismMismatch

C19_Witness ==
    /\ Follows("CheckAndUpdateTaskManager") /\ last.prev.changed
    /\ last.op = "CheckAndUpdateTaskManager"
    /\ last.err = NoErr /\ last.val = FALSE /\ Len(last.calls) = 1

----------------------------------------------------------------------------
(* C17: no mutating external call follows a failed step in the same        *)
(* invocation.  CancelWithSavepoint issues no cancel and GetSavepointStatus *)
(* no poll when the resolution of the job id fails (empty persisted id and  *)
(* no active job, or the job listing call fails); CheckAndUpdateTaskManager *)
(* issues no update and DeleteOldCluster no delete when the object listing  *)
(* fails.  The invocation returns the error and leaves the store as it was. *)

\* The resolution of the job id of the invocation failed.
ResolutionFailed ==
    /\ last.app.ActiveJobId = ""
    /\ \E i \in CallsTo("GetJobs") :
          \/ last.calls[i].err # NoErr
          \/ ActivePositions(last.calls[i].resp.jobs) = {}

\* The object listing of the invocation failed.
ListingFailed ==
    \E i \in CallsTo("GetDeploymentsWithLabel") : last.calls[i].err # NoErr

MutatingCalls ==
    CallsTo("CancelJobWithSavepoint") \cup CallsTo("CheckSavepointStatus")
        \cup CallsTo("UpdateK8Object") \cup CallsTo("DeleteDeployments")

C17_NoCallAfterFailedStep ==
    /\ (last.op \in {"CancelWithSavepoint", "GetSavepointStatus"} /\ ResolutionFailed) =>
          /\ MutatingCalls = {} /\ Len(last.calls) = 1
          /\ last.err \in {"ErrGetJobs", ErrInvalidJobs}
    /\ (last.op = "CancelWithSavepoint" /\ ResolutionFailed) => last.triggerId = ""
    /\ (last.op = "GetSavepointStatus" /\ ResolutionFailed) => last.savepoint = NilPtr
    /\ (last.op \in {"CheckAndUpdateTaskManager", "DeleteOldCluster"} /\ ListingFailed) =>
          /\ MutatingCalls = {} /\ Len(last.calls) = 1
          /\ last.err = "ErrGetDeploymentsWithLabel"
          /\ deployments = last.pre
    /\ last.op # "none" => \A i \in FailedCalls : i = Len(last.calls)

C17_Witness ==
    /\ last.op = "CancelWithSavepoint" /\ ResolutionFailed
    /\ ListingSeen # <<>>
    /\ last.err = ErrInvalidJobs /\ CallsTo("CancelJobWithSavepoint") = {}

----------------------------------------------------------------------------
(* C14: no engine operation mutates the persisted status of the desired     *)
(* application.  After any sequence of invocations, succeeding or failing,  *)
(* the active job id, the savepoint trigger id and the savepoint location   *)
(* of the application are what they were before the sequence, and the       *)
(* controller is the value its constructor made.                            *)

====
